---- MODULE Spec2Model ----
(***************************************************************************)
(* The Nukleus lexer (nk-lexer/src/lex_new_new/mod.rs) as a state machine. *)
(* A source text is a sequence of characters; a character is a one-element *)
(* string.  Offsets into the source (buffer_st, buffer_ed) are BYTE        *)
(* offsets, as in the code, and every character has its UTF-8 length.      *)
(***************************************************************************)
EXTENDS Integers, Sequences, FiniteSets, TLC

VARIABLES source, code, tokens, state, buffer_st, buffer_ed, line, column,
          status, error

vars == <<source, code, tokens, state, buffer_st, buffer_ed, line, column,
          status, error>>

(***************************************************************************)
(* Bounds of the model.                                                    *)
(***************************************************************************)
MaxLen == 4
MaxWords == 3

(***************************************************************************)
(* Characters.                                                             *)
(***************************************************************************)
\* The value peek_char is replaced by at end of input: '\0' (line 66).
NUL == "NUL"

TwoByteChars == {"é", "½"}

\* char::len_utf8 of the characters of the model
len_utf8(ch) == IF ch \in TwoByteChars THEN 2 ELSE 1

\* char::is_whitespace
is_whitespace(ch) == ch \in {" ", "\t", "\n"}

\* char::is_numeric: the Unicode numeric characters, a vulgar fraction included
is_numeric(ch) == ch \in {"0", "2", "3", "5", "½"}

AsciiDigits == {"0", "2", "3", "5"}

\* char::is_alphabetic
Letters == {"a", "b", "c", "d", "e", "f", "g", "i", "l", "m", "n", "o", "p",
            "r", "s", "t", "u", "w", "H", "S", "V", "é"}

\* str::len: the length of a text in bytes
RECURSIVE byte_len(_)
byte_len(s) == IF s = <<>> THEN 0 ELSE len_utf8(Head(s)) + byte_len(Tail(s))

\* str::is_char_boundary
is_char_boundary(src, off) ==
    \E k \in 0..Len(src) : byte_len(SubSeq(src, 1, k)) = off

\* the number of characters that lie before the byte offset off, for an offset
\* of off bytes counted from the end of the k-th character
RECURSIVE char_index_from(_, _, _)
char_index_from(src, k, off) ==
    IF off = 0 THEN k
    ELSE IF off < 0 \/ k = Len(src) THEN CHOOSE i \in {} : TRUE
    ELSE char_index_from(src, k + 1, off - len_utf8(src[k + 1]))

\* the number of characters that lie before the byte offset off, a character
\* boundary
char_index(src, off) == char_index_from(src, 0, off)

\* &src[a..b] for byte offsets a <= b that are character boundaries
str_slice(src, a, b) == SubSeq(src, char_index(src, a) + 1, char_index(src, b))

\* str::trim_matches('"'): every leading and every trailing quote goes
RECURSIVE trim_start_quotes(_)
trim_start_quotes(s) ==
    IF s # <<>> /\ Head(s) = "\"" THEN trim_start_quotes(Tail(s)) ELSE s

RECURSIVE trim_end_quotes(_)
trim_end_quotes(s) ==
    IF s # <<>> /\ s[Len(s)] = "\""
    THEN trim_end_quotes(SubSeq(s, 1, Len(s) - 1)) ELSE s

\* the buffer taken as it is, quotes included
trim_nothing(s) == s

trim_matches_quote(s) == trim_end_quotes(trim_start_quotes(s))

(***************************************************************************)
(* Tokens and the classification tables of the modules symbol, identifier  *)
(* and value.                                                              *)
(***************************************************************************)
Tok(kind, name, text) == [kind |-> kind, name |-> name, text |-> text]

\* the Err(..) result of a classification function
Err == Tok("Err", "", <<>>)

CommentToken == Tok("Symbol", "Comment", <<>>)

double_symbol_to_token(s) ==
    IF s = <<"-", ">">> THEN Tok("Symbol", "Arrow", <<>>)
    ELSE IF s = <<"/", "/">> THEN CommentToken
    ELSE Err

symbol_to_token(ch) ==
    IF ch = "(" THEN Tok("Symbol", "OpenParen", <<>>)
    ELSE IF ch = ")" THEN Tok("Symbol", "CloseParen", <<>>)
    ELSE IF ch = "{" THEN Tok("Symbol", "OpenBrace", <<>>)
    ELSE IF ch = "}" THEN Tok("Symbol", "CloseBrace", <<>>)
    ELSE IF ch = ":" THEN Tok("Symbol", "Colon", <<>>)
    ELSE IF ch = ";" THEN Tok("Symbol", "Semicolon", <<>>)
    ELSE Err

operator_to_token(ch) ==
    IF ch = "+" THEN Tok("Operator", "Add", <<>>)
    ELSE IF ch = "-" THEN Tok("Operator", "Subtract", <<>>)
    ELSE IF ch = "/" THEN Tok("Operator", "Divide", <<>>)
    ELSE IF ch = ">" THEN Tok("Operator", "Greater", <<>>)
    ELSE IF ch = "=" THEN Tok("Assign", "Assign", <<>>)
    ELSE Err

is_quote(ch) == ch = "\""

is_first_identifierable(ch) == ch \in Letters \cup {"_"}

is_identifierable(ch) == ch \in Letters \cup AsciiDigits \cup {"_"}

\* a number literal is a run of decimal digits, with an optional leading '-'
number_to_token(s) ==
    LET digits == IF s # <<>> /\ Head(s) = "-" THEN Tail(s) ELSE s
    IN  IF digits # <<>> /\ \A i \in 1..Len(digits) : digits[i] \in AsciiDigits
        THEN Tok("TypeValue", "Number", s)
        ELSE Err

statement_to_token(s) ==
    IF s = <<"f", "n">> THEN Tok("Statement", "Function", <<>>)
    ELSE IF s = <<"l", "e", "t">> THEN Tok("Statement", "Let", <<>>)
    ELSE IF s = <<"r", "e", "t", "u", "r", "n">>
    THEN Tok("Statement", "Return", <<>>)
    ELSE IF s = <<"p", "r", "i", "n", "t", "l", "n">>
    THEN Tok("Statement", "Println", <<>>)
    ELSE IF s = <<"p", "u", "b", "l", "i", "c">>
    THEN Tok("Statement", "Public", <<>>)
    ELSE Err

type_name_to_token(s) ==
    IF s = <<"i", "3", "2">> THEN Tok("TypeName", "I32", <<>>)
    ELSE IF s = <<"V", "o", "i", "d">> THEN Tok("TypeName", "Void", <<>>)
    ELSE IF s = <<"S", "t", "r", "i", "n", "g">>
    THEN Tok("TypeName", "QuotedString", <<>>)
    ELSE Err

(***************************************************************************)
(* The inputs: every text of at most MaxLen characters of Alphabet, and    *)
(* every concatenation of at most MaxWords of the Words.                   *)
(***************************************************************************)
Alphabet == {" ", "\n", "-", ">", "/", "\"", "5", "a", "@", "é"}

\* "fn main() -> Void \n{\n": the opening of the texts of the tests
Prelude == <<"f", "n", " ", "m", "a", "i", "n", "(", ")", " ", "-", ">", " ",
             "V", "o", "i", "d", " ", "\n", "{", "\n">>

Words == { Prelude,
           <<"r", "e", "t", "u", "r", "n">>,
           <<"r", "e", "t", "u", "r", "n", "i", "n", "g">>,
           <<"i", "3", "2">>,
           <<"5", "½">>,
           <<"\"">>, <<" ">>, <<" ", "\t", "\n">>, <<"\n">>, <<";">>,
           <<"/", "/", " ", "\"", "\n">> }

RECURSIVE Texts(_)
Texts(n) ==
    IF n = 0 THEN {<<>>}
    ELSE LET shorter == Texts(n - 1)
         IN  shorter \cup {<<ch>> \o s : ch \in Alphabet, s \in shorter}

RECURSIVE Concats(_)
Concats(n) ==
    IF n = 0 THEN {<<>>}
    ELSE LET shorter == Concats(n - 1)
         IN  shorter \cup {w \o s : w \in Words, s \in shorter}

Sources == Texts(MaxLen) \cup Concats(MaxWords)

(***************************************************************************)
(* The lexer.  A lexer value is the record of the fields of struct Lexer;  *)
(* code is the number of characters the iterator has yielded.  status is   *)
(* what became of the process: "running" inside run, "returned" when run   *)
(* returned, "exit1" after std::process::exit(1), "panic" after a panic.   *)
(***************************************************************************)
Lexer == [code |-> code, tokens |-> tokens, state |-> state,
          buffer_st |-> buffer_st, buffer_ed |-> buffer_ed,
          line |-> line, column |-> column, status |-> status, error |-> error]

\* Lexer::new
new == [code |-> 0, tokens |-> <<>>, state |-> "EmptyState",
        buffer_st |-> 0, buffer_ed |-> 0, line |-> 1, column |-> 1,
        status |-> "running", error |-> "None"]

\* next_char without its newline arm: the line is never advanced
line_after_without_newline_arm(ch, ln) == ln

\* the line counter after next_char has yielded ch
line_after(ch, ln) == IF ch = "\n" THEN ln + 1 ELSE ln

\* a column that counts characters, not bytes
column_after_in_chars(ch, col) == IF ch = "\n" THEN 1 ELSE col + 1

\* a column that a newline resets to 0
column_after_reset_to_zero(ch, col) == IF ch = "\n" THEN 0 ELSE col + len_utf8(ch)

\* the column counter after next_char has yielded ch
column_after(ch, col) == IF ch = "\n" THEN len_utf8("\n") ELSE col + len_utf8(ch)

\* a next_char whose newline arm does not advance the end of the buffer
next_char_newline_outside_buffer(lx, src) ==
    LET ch == src[lx.code + 1]
    IN  [lx EXCEPT !.code = @ + 1,
                   !.line = line_after(ch, @),
                   !.column = column_after(ch, @),
                   !.buffer_ed = IF ch = "\n" THEN @ ELSE @ + len_utf8(ch)]

\* a next_char that looks at the character without consuming it
next_char_without_advance(lx, src) == lx

\* Lexer::next_char, when the iterator has a character left
next_char(lx, src) ==
    LET ch == src[lx.code + 1]
    IN  [lx EXCEPT !.code = @ + 1,
                   !.line = line_after(ch, @),
                   !.column = column_after(ch, @),
                   !.buffer_ed = @ + len_utf8(ch)]

\* Lexer::peek_char, with '\0' for its error
peek_char(lx, src) == IF lx.code < Len(src) THEN src[lx.code + 1] ELSE NUL

\* a token put in front of the tokens emitted so far
insert_token_at_front(lx, token) == [lx EXCEPT !.tokens = <<token>> \o @]

\* Lexer::insert_token
insert_token(lx, token) == [lx EXCEPT !.tokens = Append(@, token)]

\* usize::saturating_sub
saturating_sub(a, b) == IF a >= b THEN a - b ELSE 0

context_window == 10

\* Lexer::report_error: the slice of the context panics off a character
\* boundary, and the usize subtraction of the caret indentation panics (debug
\* build) or wraps to a length no String can have (release build) when the
\* column is not beyond start.
report_error(lx, src, message) ==
    LET start == saturating_sub(lx.buffer_st, context_window)
        end == IF lx.buffer_ed + context_window < byte_len(src)
               THEN lx.buffer_ed + context_window ELSE byte_len(src)
        sliced == start <= end /\ is_char_boundary(src, start)
                               /\ is_char_boundary(src, end)
        indented == saturating_sub(lx.column, start) - 1 >= 0
    IN  [lx EXCEPT !.error = message,
                   !.status = IF sliced /\ indented THEN "exit1" ELSE "panic"]

\* DoubleState left without the state being reset
after_double_symbol_keeps_state(lx) == [lx EXCEPT !.buffer_st = lx.buffer_ed]

\* lines 75-79: the second character of a double symbol is swallowed
after_double_symbol(lx) ==
    [lx EXCEPT !.buffer_st = lx.buffer_ed, !.state = "EmptyState"]

\* a comment that any whitespace ends
in_comment_until_whitespace(lx, c) ==
    IF is_whitespace(c)
    THEN [lx EXCEPT !.state = "EmptyState", !.buffer_st = lx.buffer_ed]
    ELSE lx

\* lines 82-88: inside a comment
in_comment(lx, c) ==
    IF c = "\n"
    THEN [lx EXCEPT !.state = "EmptyState", !.buffer_st = lx.buffer_ed]
    ELSE lx

\* only the space is taken for whitespace
skips_only_spaces(c, st) == c = " " /\ st # "QuotedString"

\* whitespace skipped inside quoted strings too
skips_whitespace_in_strings(c, st) == is_whitespace(c)

\* line 91: the whitespace that is skipped
skips_whitespace(c, st) == is_whitespace(c) /\ st # "QuotedString"

\* whitespace skipped without the buffer being re-anchored
skip_whitespace_without_anchor(lx) == [lx EXCEPT !.state = "EmptyState"]

\* lines 92-94
skip_whitespace(lx) ==
    [lx EXCEPT !.buffer_st = lx.buffer_ed, !.state = "EmptyState"]

\* line 98: the buffer holds the current character alone
is_fresh(lx, c) == lx.buffer_ed = lx.buffer_st + len_utf8(c)

\* a number closed after its first character, whatever follows
number_closes_at_once(peeked_char) == TRUE

\* line 143: a number closes when the lookahead is not numeric
number_closes(peeked_char) == ~is_numeric(peeked_char)

\* lines 143-159: the number is closed
close_number(lx, src) ==
    LET number == number_to_token(str_slice(src, lx.buffer_st, lx.buffer_ed))
    IN  IF number # Err
        THEN [insert_token(lx, number) EXCEPT !.buffer_st = lx.buffer_ed,
                                              !.state = "EmptyState"]
        ELSE report_error(lx, src, "InvalidNumber")

\* lines 167-175: the closing quote
close_string(lx, src) ==
    LET string == trim_matches_quote(str_slice(src, lx.buffer_st, lx.buffer_ed))
    IN  [insert_token(lx, Tok("TypeValue", "QuotedString", string))
            EXCEPT !.buffer_st = lx.buffer_ed, !.state = "EmptyState"]

\* lines 184-199: the token of a closed identifier span
classify(string) ==
    IF statement_to_token(string) # Err THEN statement_to_token(string)
    ELSE IF type_name_to_token(string) # Err THEN type_name_to_token(string)
    ELSE Tok("TypeValue", "Identifier", string)

\* an identifier that is also closed as soon as its span is a keyword
identifier_closes_at_keyword(string, peeked_char) ==
    ~is_identifierable(peeked_char) \/ statement_to_token(string) # Err

\* an identifier that the end of input does not close
identifier_closes_before_a_character(string, peeked_char) ==
    ~is_identifierable(peeked_char) /\ peeked_char # NUL

\* line 183: the identifier is closed when the lookahead does not continue it
identifier_closes(string, peeked_char) == ~is_identifierable(peeked_char)

\* lines 184-203
close_identifier(lx, src) ==
    LET string == str_slice(src, lx.buffer_st, lx.buffer_ed)
    IN  [insert_token(lx, classify(string))
            EXCEPT !.buffer_st = lx.buffer_ed, !.state = "EmptyState"]

\* lines 135-204: numbers, quoted strings, identifiers
lex_pending(lx, c, peeked_char, src) ==
    LET buffer == str_slice(src, lx.buffer_st, lx.buffer_ed)
    IN  IF buffer = <<>>
        THEN [lx EXCEPT !.status = "panic"]
        ELSE
        LET first_char == Head(buffer)
            st1 == IF lx.state = "DefaultState"
                      /\ (first_char = "-" \/ is_numeric(first_char))
                   THEN "Number" ELSE lx.state
            st2 == IF st1 = "DefaultState" /\ is_first_identifierable(first_char)
                   THEN "Identifier" ELSE st1
        IN  IF st1 = "Number" /\ number_closes(peeked_char)
            THEN close_number([lx EXCEPT !.state = st1], src)
            ELSE IF st1 = "DefaultState" /\ is_quote(first_char)
            THEN [lx EXCEPT !.state = "QuotedString"]
            ELSE IF st1 = "QuotedString" /\ ~is_quote(c)
            THEN lx
            ELSE IF st1 = "QuotedString" /\ is_quote(c)
            THEN close_string(lx, src)
            ELSE IF st2 = "Identifier" /\ identifier_closes(buffer, peeked_char)
            THEN close_identifier([lx EXCEPT !.state = st2], src)
            ELSE [lx EXCEPT !.state = st2]

\* lex_fresh with the single-character tables consulted before the double one
lex_fresh_single_first(lx, c, peeked_char, src) ==
    LET double_symbol ==
            IF peeked_char # NUL
            THEN double_symbol_to_token(
                     str_slice(src, lx.buffer_st,
                               lx.buffer_ed + len_utf8(peeked_char)))
            ELSE Err
    IN  IF symbol_to_token(c) # Err
        THEN [insert_token(lx, symbol_to_token(c))
                 EXCEPT !.buffer_st = lx.buffer_ed]
        ELSE IF operator_to_token(c) # Err
        THEN [insert_token(lx, operator_to_token(c))
                 EXCEPT !.buffer_st = lx.buffer_ed]
        ELSE IF double_symbol = CommentToken
        THEN [lx EXCEPT !.state = "Comment"]
        ELSE IF double_symbol # Err
        THEN [insert_token(lx, double_symbol) EXCEPT !.state = "DoubleState"]
        ELSE lex_pending([lx EXCEPT !.state = "DefaultState"],
                         c, peeked_char, src)

\* lines 98-133: the first character of a lexeme
lex_fresh(lx, c, peeked_char, src) ==
    LET double_symbol ==
            IF peeked_char # NUL
            THEN double_symbol_to_token(
                     str_slice(src, lx.buffer_st,
                               lx.buffer_ed + len_utf8(peeked_char)))
            ELSE Err
    IN  IF double_symbol = CommentToken
        THEN [lx EXCEPT !.state = "Comment"]
        ELSE IF double_symbol # Err
        THEN [insert_token(lx, double_symbol) EXCEPT !.state = "DoubleState"]
        ELSE IF symbol_to_token(c) # Err
        THEN [insert_token(lx, symbol_to_token(c))
                 EXCEPT !.buffer_st = lx.buffer_ed]
        ELSE IF operator_to_token(c) # Err
        THEN [insert_token(lx, operator_to_token(c))
                 EXCEPT !.buffer_st = lx.buffer_ed]
        ELSE lex_pending([lx EXCEPT !.state = "DefaultState"],
                         c, peeked_char, src)

\* lines 63-205: one iteration of the loop of Lexer::run
run_iteration(lx0, src) ==
    LET c == src[lx0.code + 1]
        lx == next_char(lx0, src)
        peeked_char == peek_char(lx, src)
    IN  IF lx.state = "DoubleState" THEN after_double_symbol(lx)
        ELSE IF lx.state = "Comment" THEN in_comment(lx, c)
        ELSE IF skips_whitespace(c, lx.state) THEN skip_whitespace(lx)
        ELSE IF is_fresh(lx, c) THEN lex_fresh(lx, c, peeked_char, src)
        ELSE lex_pending(lx, c, peeked_char, src)

\* the end-of-input check made on the wrong state
expects_quote_in_default(st) == st = "DefaultState"

\* line 206: the end of input inside a quoted string
expects_quote(st) == st = "QuotedString"

\* lines 206-213: the end of Lexer::run
run_end(lx, src) ==
    IF expects_quote(lx.state)
    THEN report_error(lx, src, "ExpectedQuote")
    ELSE [lx EXCEPT !.status = "returned"]

\* Lexer::run from the lexer value lx to its end
RECURSIVE run_from(_, _)
run_from(lx, src) ==
    IF lx.status # "running" THEN lx
    ELSE IF lx.code < Len(src) THEN run_from(run_iteration(lx, src), src)
    ELSE run_end(lx, src)

\* Lexer::new(src) followed by Lexer::run
run(src) == run_from(new, src)

(***************************************************************************)
(* The state machine.                                                      *)
(***************************************************************************)
Become(lx) ==
    /\ code' = lx.code
    /\ tokens' = lx.tokens
    /\ state' = lx.state
    /\ buffer_st' = lx.buffer_st
    /\ buffer_ed' = lx.buffer_ed
    /\ line' = lx.line
    /\ column' = lx.column
    /\ status' = lx.status
    /\ error' = lx.error
    /\ UNCHANGED source

Init ==
    /\ source \in Sources
    /\ code = new.code
    /\ tokens = new.tokens
    /\ state = new.state
    /\ buffer_st = new.buffer_st
    /\ buffer_ed = new.buffer_ed
    /\ line = new.line
    /\ column = new.column
    /\ status = new.status
    /\ error = new.error

\* one iteration of `while let Some(c) = self.next_char()`
RunStep ==
    /\ status = "running"
    /\ code < Len(source)
    /\ Become(run_iteration(Lexer, source))

\* next_char yields None: the loop ends
RunEnd ==
    /\ status = "running"
    /\ code = Len(source)
    /\ Become(run_end(Lexer, source))

Next == RunStep \/ RunEnd

Spec == Init /\ [][Next]_vars

(***************************************************************************)
(* Vocabulary of the properties.                                           *)
(***************************************************************************)
\* the loop is about to consume a character
AtChar == status = "running" /\ code < Len(source)

\* the character the next iteration consumes, and its lookahead
CurChar == source[code + 1]
Lookahead == IF code + 1 < Len(source) THEN source[code + 2] ELSE NUL

\* the next character begins a lexeme: it is evaluated by the rules of a
\* fresh buffer
BeginsLexeme ==
    /\ AtChar
    /\ state \notin {"DoubleState", "Comment"}
    /\ ~is_whitespace(CurChar)
    /\ buffer_st = buffer_ed

\* the next character and its lookahead are an entry of the double table
BeginsDoubleSymbol ==
    /\ BeginsLexeme
    /\ Lookahead # NUL
    /\ double_symbol_to_token(<<CurChar, Lookahead>>) # Err

DoubleToken == double_symbol_to_token(<<CurChar, Lookahead>>)

LastToken(toks) == toks[Len(toks)]

\* the step appends exactly one token
EmitsOne == Len(tokens') = Len(tokens) + 1 /\ SubSeq(tokens', 1, Len(tokens)) = tokens

Finished == status # "running"

(***************************************************************************)
(* C1.  Maximal munch.                                                     *)
(***************************************************************************)
\* C1 as stated: whenever the character that begins a lexeme and its
\* lookahead form an entry of the double-symbol table, exactly one token (the
\* double symbol) is emitted for the pair: the step that consumes the first
\* character appends it and the step that consumes the second appends none.
C1_OneTokenPerDoubleSymbol ==
    [][ /\ BeginsDoubleSymbol =>
              /\ tokens' = Append(tokens, DoubleToken)
              /\ state' = "DoubleState"
        /\ (AtChar /\ state = "DoubleState") => tokens' = tokens ]_vars

\* C1 amended: every entry of the double-symbol table other than the comment
\* opener yields exactly one token, the double symbol, for its two characters;
\* the comment opener yields no token for them; in neither case is a
\* single-character symbol or operator token emitted for either character.
C1_MaximalMunch ==
    [][ /\ (BeginsDoubleSymbol /\ DoubleToken # CommentToken) =>
              /\ tokens' = Append(tokens, DoubleToken)
              /\ state' = "DoubleState"
        /\ (BeginsDoubleSymbol /\ DoubleToken = CommentToken) =>
              /\ tokens' = tokens
              /\ state' = "Comment"
        /\ (AtChar /\ state \in {"DoubleState", "Comment"}) => tokens' = tokens
      ]_vars

\* C1 witness: the arrow has been emitted and its second character is pending
C1_Witness ==
    /\ state = "DoubleState"
    /\ AtChar /\ CurChar = ">"
    /\ tokens # <<>> /\ LastToken(tokens) = Tok("Symbol", "Arrow", <<>>)

(***************************************************************************)
(* C2.  Every lexical failure is fatal.                                    *)
(***************************************************************************)
\* no rule classifies the character c with the lookahead p
Unclassifiable(c, p) ==
    /\ p = NUL \/ double_symbol_to_token(<<c, p>>) = Err
    /\ symbol_to_token(c) = Err
    /\ operator_to_token(c) = Err
    /\ ~(c = "-" \/ is_numeric(c))
    /\ ~is_quote(c)
    /\ ~is_first_identifierable(c)

\* C2: a character that begins a lexeme and that no rule classifies ends the
\* scan at once with an invalid-character error; it is never skipped.
C2_InvalidCharacterIsFatal ==
    [][ (BeginsLexeme /\ Unclassifiable(CurChar, Lookahead)) =>
            (status' # "running" /\ error' = "InvalidCharacter") ]_vars

(***************************************************************************)
(* C3.  The unterminated quoted string.                                    *)
(***************************************************************************)
NoQuoteAfter(k) == \A i \in (k + 1)..Len(source) : ~is_quote(source[i])

\* C3: when a quote begins a lexeme and no later quote closes it, the scan
\* reaches the end of input in QuotedString, raises ExpectedQuote and returns
\* no tokens; and a finished scan has raised ExpectedQuote exactly when it
\* ended in QuotedString.
C3_UnterminatedString ==
    /\ (BeginsLexeme /\ is_quote(CurChar) /\ NoQuoteAfter(code + 1)) =>
           LET final == run_from(Lexer, source)
           IN  /\ final.code = Len(source)
               /\ final.state = "QuotedString"
               /\ final.error = "ExpectedQuote"
               /\ final.status # "returned"
    /\ Finished =>
           /\ (error = "ExpectedQuote") <=> (state = "QuotedString")
           /\ (error = "ExpectedQuote") => (status # "returned" /\ code = Len(source))

\* C3 witness: the scan ended on an unterminated string that followed tokens
C3_Witness ==
    /\ Finished /\ error = "ExpectedQuote" /\ state = "QuotedString"
    /\ tokens # <<>>
    /\ Len(source) - char_index(source, buffer_st) >= 2

(***************************************************************************)
(* C4.  report_error completes for every error.                            *)
(***************************************************************************)
\* C4: whatever line, column, buffer_st and buffer_ed are when an error is
\* raised, report_error completes and the process exits with status 1; the
\* caret indentation column - max(buffer_st - 10, 0) - 1 is not negative and
\* the context window satisfies start <= end <= length of the source.
C4_ReportErrorCompletes ==
    error # "None" =>
        LET start == IF buffer_st - context_window > 0
                     THEN buffer_st - context_window ELSE 0
            end == IF buffer_ed + context_window < byte_len(source)
                   THEN buffer_ed + context_window ELSE byte_len(source)
        IN  /\ status = "exit1"
            /\ column - start - 1 >= 0
            /\ start <= end /\ end <= byte_len(source)

(***************************************************************************)
(* C5.  The payload of a quoted string.                                    *)
(***************************************************************************)
IsStringToken(t) == t.kind = "TypeValue" /\ t.name = "QuotedString"

\* C5: a step that emits a QuotedString token consumes a quote, and the
\* payload is, verbatim and in order, the characters of the source that lie
\* strictly between that closing quote and the quote before it: no quote is
\* in it and no whitespace is dropped from it.
C5_StringPayload ==
    [][ (AtChar /\ EmitsOne /\ IsStringToken(LastToken(tokens'))) =>
            LET payload == LastToken(tokens').text
                opening == code - Len(payload)
            IN  /\ is_quote(CurChar)
                /\ opening >= 1 /\ is_quote(source[opening])
                /\ payload = SubSeq(source, opening + 1, code)
                /\ \A i \in 1..Len(payload) : ~is_quote(payload[i]) ]_vars

\* C5 witness: an emitted string holds a space, a tab and a newline
C5_Witness ==
    \E i \in 1..Len(tokens) :
        /\ IsStringToken(tokens[i])
        /\ \A ws \in {" ", "\t", "\n"} :
               \E k \in 1..Len(tokens[i].text) : tokens[i].text[k] = ws

(***************************************************************************)
(* C6.  Comment suppression.                                               *)
(***************************************************************************)
\* the next two characters open a comment at a lexeme start
BeginsComment == BeginsDoubleSymbol /\ DoubleToken = CommentToken

\* the index of the newline that ends the comment that begins at the next
\* character, Len(source) + 1 when it runs to the end of input
CommentEnd ==
    LET newlines == {j \in (code + 1)..Len(source) : source[j] = "\n"}
    IN  IF newlines = {} THEN Len(source) + 1
        ELSE CHOOSE j \in newlines : \A k \in newlines : j <= k

\* the lexer value after the iterations that consume the characters up to
\* the n-th one
RECURSIVE RunTo(_, _, _)
RunTo(lx, src, n) ==
    IF lx.status # "running" \/ lx.code >= n \/ lx.code >= Len(src) THEN lx
    ELSE RunTo(run_iteration(lx, src), src, n)

SameResult(a, b) == a.tokens = b.tokens /\ a.error = b.error

\* C6 as stated: the characters of a comment, from its opener up to and
\* including the next newline, contribute no tokens, and the scan yields the
\* tokens of the source with those characters removed.
C6_CommentCutOut ==
    BeginsComment =>
        /\ RunTo(Lexer, source, CommentEnd).tokens = tokens
        /\ SameResult(run(source),
                      run(SubSeq(source, 1, code)
                          \o SubSeq(source, CommentEnd + 1, Len(source))))

\* C6 amended: the characters of a comment, from its opener up to and
\* including the next newline (or the end of input), contribute no tokens,
\* and the scan yields the tokens of the source with the comment removed up
\* to, but not including, the newline that ends it.
C6_CommentSuppressed ==
    BeginsComment =>
        /\ RunTo(Lexer, source, CommentEnd).tokens = tokens
        /\ SameResult(run(source),
                      run(SubSeq(source, 1, code)
                          \o SubSeq(source, CommentEnd, Len(source))))

\* C6 witness: a comment that holds a space and a quote lies between two
\* identifiers, and both have been emitted
C6_Witness ==
    /\ status = "returned"
    /\ Len(tokens) = 2
    /\ \E i \in 1..(Len(source) - 4) :
           /\ SubSeq(source, i, i + 4) = <<"/", "/", " ", "\"", "\n">>
           /\ i > 1 /\ i + 4 < Len(source)

(***************************************************************************)
(* C7.  Identifier classification.                                         *)
(***************************************************************************)
IsWordToken(t) ==
    \/ t.kind \in {"Statement", "TypeName"}
    \/ t.kind = "TypeValue" /\ t.name = "Identifier"

\* the characters from the start of the buffer to the next character included
PendingSpan == SubSeq(source, char_index(source, buffer_st) + 1, code + 1)

\* C7: a step that emits a keyword, type-name or identifier token does so only
\* when the lookahead does not continue an identifier, and the token is the
\* classification of the whole span buffered since the lexeme began: Statement
\* if the span is a reserved keyword, else TypeName if it is a type name, else
\* Identifier with the span as its text.
C7_IdentifierClassification ==
    [][ (AtChar /\ EmitsOne /\ IsWordToken(LastToken(tokens'))) =>
            LET span == PendingSpan
                token == LastToken(tokens')
            IN  /\ ~is_identifierable(Lookahead)
                /\ is_first_identifierable(span[1])
                /\ \A i \in 1..Len(span) : is_identifierable(span[i])
                /\ IF statement_to_token(span) # Err
                   THEN token = statement_to_token(span)
                   ELSE IF type_name_to_token(span) # Err
                   THEN token = type_name_to_token(span)
                   ELSE token = Tok("TypeValue", "Identifier", span) ]_vars

\* C7 witness: "return" and "returning" have both been lexed, as a keyword
\* and as one identifier
C7_Witness ==
    /\ Len(tokens) = 2
    /\ tokens[1] = Tok("Statement", "Return", <<>>)
    /\ tokens[2] = Tok("TypeValue", "Identifier",
                       <<"r", "e", "t", "u", "r", "n", "i", "n", "g">>)

(***************************************************************************)
(* C8.  Whitespace-only sources.                                           *)
(***************************************************************************)
OnlyWhitespace(src) == \A i \in 1..Len(src) : is_whitespace(src[i])

\* C8: the scan of a source made of whitespace only, the empty source
\* included, emits no token, raises no error and ends in EmptyState.
C8_WhitespaceOnly ==
    OnlyWhitespace(source) =>
        /\ tokens = <<>>
        /\ error = "None"
        /\ state = "EmptyState"
        /\ Finished => status = "returned"

\* C8 witness: run has returned from a source of spaces, tabs and newlines
C8_Witness ==
    /\ status = "returned"
    /\ OnlyWhitespace(source)
    /\ \A ws \in {" ", "\t", "\n"} : \E i \in 1..Len(source) : source[i] = ws

(***************************************************************************)
(* C9.  The counters after a single-line input.                            *)
(***************************************************************************)
SingleLine(src) == \A i \in 1..Len(src) : src[i] # "\n"

\* C9 as stated: after the scan without error of an input with no newline,
\* line is 1 and column is the number of characters (code points) plus one.
C9_ColumnCountsCodePoints ==
    (status = "returned" /\ SingleLine(source)) =>
        (line = 1 /\ column = Len(source) + 1)

\* C9 amended: after the scan without error of an input with no newline, line
\* is 1 and column is the number of UTF-8 bytes of the input plus one, which
\* is the number of characters plus one when the input is ASCII only.
C9_ColumnCountsBytes ==
    (status = "returned" /\ SingleLine(source)) =>
        /\ line = 1
        /\ column = byte_len(source) + 1
        /\ (\A i \in 1..Len(source) : len_utf8(source[i]) = 1) =>
               column = Len(source) + 1

\* C9 witness: a single-line input with a multi-byte character in a quoted
\* string has been scanned without error
C9_Witness ==
    /\ status = "returned"
    /\ SingleLine(source)
    /\ \E i \in 1..Len(tokens) :
           IsStringToken(tokens[i]) /\ tokens[i].text = <<"é">>

(***************************************************************************)
(* C10.  The line counter.                                                 *)
(***************************************************************************)
NewlinesConsumed == Cardinality({i \in 1..code : source[i] = "\n"})

\* C10: in every state of the scan, line is 1 plus the number of newline
\* characters consumed so far, whatever the scanner state was when they were
\* consumed.
C10_LineCounter == line = 1 + NewlinesConsumed

\* C10 witness: a newline has been consumed inside a comment and another
\* inside a quoted string
C10_Witness ==
    /\ line = 3
    /\ state = "QuotedString"
    /\ code >= 1 /\ source[code] = "\n"
    /\ \E j \in 1..(code - 1) :
           /\ source[j] = "\n"
           /\ RunTo(new, source, j - 1).state = "Comment"

(***************************************************************************)
(* C11.  The column counter after a newline.                               *)
(***************************************************************************)
\* the index of the last newline consumed, 0 when none has been
LastNewline ==
    LET newlines == {i \in 1..code : source[i] = "\n"}
    IN  IF newlines = {} THEN 0
        ELSE CHOOSE i \in newlines : \A k \in newlines : k <= i

\* C11: right after a newline is consumed column is 1, and once a newline has
\* been consumed column is 1 plus the UTF-8 byte length of the characters
\* consumed since the last newline.
C11_ColumnAfterNewline ==
    LastNewline > 0 =>
        /\ column = 1 + byte_len(SubSeq(source, LastNewline + 1, code))
        /\ (LastNewline = code) => column = 1

\* C11 witness: a two-byte character is the only one consumed since the last
\* newline, and column is 3
C11_Witness ==
    /\ code >= 2
    /\ source[code - 1] = "\n" /\ source[code] = "é"
    /\ column = 3

(***************************************************************************)
(* C12.  The token sequence is append-only and in source order.            *)
(***************************************************************************)
\* the lexeme of the token that the step from lx to its successor nx emits:
\* the bytes from the start of the buffer to the end of the buffer, the
\* lookahead included when the token is a double symbol
LexemeOf(lx, nx, src) ==
    [st |-> lx.buffer_st,
     ed |-> IF nx.state = "DoubleState"
            THEN nx.buffer_ed + len_utf8(peek_char(nx, src))
            ELSE nx.buffer_ed]

\* one pass over the steps of Lexer::run from lx on, gathering in acc the
\* lexemes of the tokens emitted, the indices of the characters consumed as
\* part of a comment (the two characters of the opener, the characters after
\* it and the newline that ends it) and whether some step begins a lexeme with
\* a character that no rule classifies
RECURSIVE Survey(_, _, _)
Survey(lx, src, acc) ==
    IF lx.status # "running" \/ lx.code >= Len(src) THEN acc
    ELSE LET nx == run_iteration(lx, src)
             c == src[lx.code + 1]
         IN  Survey(nx, src,
                [spans |-> IF Len(nx.tokens) > Len(lx.tokens)
                           THEN Append(acc.spans, LexemeOf(lx, nx, src))
                           ELSE acc.spans,
                 comment |-> IF lx.state = "Comment" \/ nx.state = "Comment"
                             THEN acc.comment \cup {lx.code + 1}
                             ELSE acc.comment,
                 unclassifiable |->
                    \/ acc.unclassifiable
                    \/ /\ lx.state \notin {"DoubleState", "Comment"}
                       /\ ~is_whitespace(c)
                       /\ lx.buffer_st = lx.buffer_ed
                       /\ Unclassifiable(c, peek_char(next_char(lx, src), src))])

SurveyOf(src) ==
    Survey(new, src, [spans |-> <<>>, comment |-> {}, unclassifiable |-> FALSE])

\* the lexemes of the tokens emitted by Lexer::run on src
Lexemes(src) == SurveyOf(src).spans

\* each lexeme starts after the start, and not before the end, of the one
\* before it
InSourceOrder(spans) ==
    \A i \in 1..(Len(spans) - 1) :
        /\ spans[i].st < spans[i + 1].st
        /\ spans[i].ed <= spans[i + 1].st

\* C12: every step leaves the tokens alone or appends exactly one token to
\* them, the step at end of input appends none, and the lexemes of the tokens
\* of a scan, one per token, are in source order.
C12_AppendOnlyInOrder ==
    /\ [][ /\ tokens' = tokens \/ EmitsOne
           /\ ~AtChar => tokens' = tokens ]_vars
    /\ [](Finished => LET spans == Lexemes(source)
                      IN  Len(spans) = Len(tokens) /\ InSourceOrder(spans))

\* C12 witness: a finished scan of three or more tokens, a double symbol and
\* a token right after it among them
C12_Witness ==
    /\ status = "returned"
    /\ Len(tokens) >= 3
    /\ \E i \in 1..(Len(tokens) - 1) :
          /\ tokens[i] = double_symbol_to_token(<<"-", ">">>)
          /\ Lexemes(source)[i].ed = Lexemes(source)[i + 1].st

(***************************************************************************)
(* C13.  A run of numeric characters is one number.                        *)
(***************************************************************************)
\* the index of the last character of the maximal run, starting at the next
\* character, of characters that satisfy Member
RunEndOf(Member(_)) ==
    CHOOSE e \in (code + 1)..Len(source) :
        /\ \A k \in (code + 1)..e : Member(source[k])
        /\ e = Len(source) \/ ~Member(source[e + 1])

IsDecimalDigit(ch) == ch \in AsciiDigits

\* the run from the next character to index e is emitted as one Number token
\* when the scan has consumed it: no token before its last character, then
\* exactly the token with the whole run as text, the buffer re-anchored and the
\* state EmptyState
YieldsNumber(e) ==
    LET after == RunTo(Lexer, source, e)
    IN  /\ \A k \in (code + 1)..(e - 1) :
              /\ RunTo(Lexer, source, k).tokens = tokens
              /\ RunTo(Lexer, source, k).state = "Number"
        /\ after.status = "running"
        /\ after.tokens =
              Append(tokens, Tok("TypeValue", "Number", SubSeq(source, code + 1, e)))
        /\ after.state = "EmptyState"
        /\ after.buffer_st = after.buffer_ed

\* C13 as stated: a maximal run of digit characters that begins a lexeme
\* yields exactly one Number token whose text is the whole run.
C13_DigitRunIsOneNumber ==
    (BeginsLexeme /\ IsDecimalDigit(CurChar)) => YieldsNumber(RunEndOf(IsDecimalDigit))

\* C13: a maximal run of numeric characters (char::is_numeric) that begins a
\* lexeme is buffered whole in the Number state and closed on the step that
\* consumes its last character: if number_to_token accepts the run, exactly one
\* Number token whose text is the whole run is appended and the character after
\* the run begins a new lexeme; otherwise InvalidNumber is raised on that step
\* and no token is appended.  The run is never split or truncated.
C13_NumericRunIsOneNumber ==
    (BeginsLexeme /\ is_numeric(CurChar)) =>
        LET e == RunEndOf(is_numeric)
            after == RunTo(Lexer, source, e)
        IN  IF number_to_token(SubSeq(source, code + 1, e)) # Err
            THEN YieldsNumber(e)
            ELSE /\ after.code = e
                 /\ after.tokens = tokens
                 /\ after.error = "InvalidNumber"
                 /\ after.status # "running"

\* C13 witness: the run "55" has been emitted as one Number token and the
\* letter after it as an identifier of its own
C13_Witness ==
    /\ Len(tokens) >= 2
    /\ tokens[Len(tokens) - 1] = Tok("TypeValue", "Number", <<"5", "5">>)
    /\ LastToken(tokens) = Tok("TypeValue", "Identifier", <<"a">>)
    /\ code >= 3 /\ SubSeq(source, code - 2, code) = <<"5", "5", "a">>

(***************************************************************************)
(* C14.  A leading '-' and the Number state.                               *)
(***************************************************************************)
\* C14: a '-' that begins a lexeme and is followed by a digit is buffered in
\* the Number state as the first character of a number: the step that consumes
\* it emits no token and enters Number, and the token emitted next is the
\* Number whose text starts with the '-'.
C14_MinusBeginsNumber ==
    (BeginsLexeme /\ CurChar = "-" /\ IsDecimalDigit(Lookahead)) =>
        LET first == RunTo(Lexer, source, code + 1)
            second == RunTo(Lexer, source, code + 2)
        IN  /\ first.state = "Number"
            /\ first.tokens = tokens
            /\ Len(second.tokens) > Len(tokens) =>
                  /\ second.tokens[Len(tokens) + 1].name = "Number"
                  /\ Head(second.tokens[Len(tokens) + 1].text) = "-"

(***************************************************************************)
(* C15.  DoubleState lasts one step.                                       *)
(***************************************************************************)
\* C15: a step taken in DoubleState consumes one character and, whatever the
\* character, emits no token, raises no error, re-anchors the buffer and moves
\* to EmptyState; and DoubleState is only ever the state while a character
\* remains to be consumed, so it is never the state at end of input.
C15_DoubleStateOneStep ==
    /\ [][ state = "DoubleState" =>
              /\ code' = code + 1
              /\ tokens' = tokens
              /\ status' = "running" /\ error' = error
              /\ buffer_st' = buffer_ed' /\ buffer_ed' = buffer_ed + len_utf8(CurChar)
              /\ state' = "EmptyState" ]_vars
    /\ [](state = "DoubleState" => AtChar)

\* C15 witness: the second character of "->" has just been swallowed, though it
\* is an operator of its own; the last token is still the arrow
C15_Witness ==
    /\ code >= 2
    /\ source[code - 1] = "-" /\ source[code] = ">"
    /\ operator_to_token(source[code]) # Err
    /\ state = "EmptyState" /\ buffer_st = buffer_ed
    /\ tokens # <<>> /\ LastToken(tokens) = double_symbol_to_token(<<"-", ">">>)

(***************************************************************************)
(* C16.  Quoted strings are isolated from the other rules.                 *)
(***************************************************************************)
\* C16: a step taken in QuotedString on a character that is not a quote keeps
\* the state QuotedString, leaves buffer_st where it is, emits no token and
\* raises no error, whatever the character; a step taken in QuotedString on a
\* quote emits exactly one token, a QuotedString, re-anchors the buffer and
\* moves to EmptyState.
C16_StringIsolation ==
    [][ (AtChar /\ state = "QuotedString") =>
            IF is_quote(CurChar)
            THEN /\ EmitsOne
                 /\ IsStringToken(LastToken(tokens'))
                 /\ buffer_st' = buffer_ed'
                 /\ state' = "EmptyState"
            ELSE /\ state' = "QuotedString"
                 /\ buffer_st' = buffer_st
                 /\ tokens' = tokens
                 /\ status' = "running" /\ error' = error ]_vars

\* C16 witness: a string that held a comment opener and a space has been
\* closed by the first quote after its opening quote
C16_Witness ==
    /\ code >= 5
    /\ SubSeq(source, code - 4, code) = <<"\"", "/", "/", " ", "\"">>
    /\ state = "EmptyState" /\ buffer_st = buffer_ed
    /\ tokens # <<>>
    /\ LastToken(tokens) = Tok("TypeValue", "QuotedString", <<"/", "/", " ">>)

(***************************************************************************)
(* C17.  Lexer::run terminates.                                            *)
(***************************************************************************)
\* C17: every iteration of the loop consumes exactly one character, the step
\* taken when the characters are exhausted ends the scan, and until it has
\* ended the scan is at a character or at the end of the characters; so the
\* characters consumed count the iterations, which never exceed the length of
\* the source and equal it when run returns, and the tokens emitted never
\* exceed the characters consumed.
C17_RunTerminates ==
    /\ [][ IF AtChar THEN code' = code + 1
                     ELSE code' = code /\ Finished' ]_vars
    /\ [](code <= Len(source) /\ Len(tokens) <= code)
    /\ [](status = "returned" => code = Len(source))
    /\ [](~Finished => AtChar \/ code = Len(source))

\* C17 witness: run has returned after as many iterations as the source has
\* characters, each of which emitted a token
C17_Witness ==
    /\ status = "returned"
    /\ code = Len(source) /\ code >= 3
    /\ Len(tokens) = code

\* C17 witness: a fatal error has ended the scan before the last character
C17_WitnessFatal ==
    /\ status # "running" /\ status # "returned"
    /\ code < Len(source)

(***************************************************************************)
(* C18.  No pending number or identifier is discarded.                     *)
(***************************************************************************)
\* the characters are exhausted and no fatal error has ended the scan
AtEndOfInput == code = Len(source) /\ status \in {"running", "returned"}

\* C18: when the next character to consume is whitespace, and when the end of
\* input has been reached, the state is neither Number nor Identifier: the
\* lexeme was closed on the step that consumed its last character.
C18_NothingPendingIsDiscarded ==
    ((AtChar /\ is_whitespace(CurChar)) \/ AtEndOfInput) =>
        state \notin {"Number", "Identifier"}

\* C18 witness: a number and an identifier have been closed by lookahead, the
\* identifier just before a whitespace character that is yet to be consumed
C18_Witness ==
    /\ AtChar /\ is_whitespace(CurChar)
    /\ Len(tokens) >= 2
    /\ tokens[Len(tokens) - 1].name = "Number"
    /\ LastToken(tokens).name = "Identifier"
    /\ is_identifierable(source[code])
    /\ state = "EmptyState" /\ buffer_st = buffer_ed

(***************************************************************************)
(* C19.  The buffer offsets.                                               *)
(***************************************************************************)
\* the step about to be taken reads the first buffered character (lines
\* 136-139): it is a step that none of the rules before that line ends
ReadsFirstChar ==
    /\ AtChar
    /\ state \notin {"DoubleState", "Comment"}
    /\ ~skips_whitespace(CurChar, state)
    /\ LET lx == next_char(Lexer, source)
       IN  is_fresh(lx, CurChar) =>
              /\ Lookahead = NUL \/ double_symbol_to_token(<<CurChar, Lookahead>>) = Err
              /\ symbol_to_token(CurChar) = Err
              /\ operator_to_token(CurChar) = Err

\* C19: 0 <= buffer_st <= buffer_ed <= the byte length of the source, both
\* offsets fall on character boundaries, buffer_ed is the byte length of the
\* characters consumed so far, the buffer that a step reads the first
\* character of is not empty once the step's character is in it, and no step
\* fails on the slice or on the unwrap.
C19_BufferOffsets ==
    /\ 0 <= buffer_st /\ buffer_st <= buffer_ed /\ buffer_ed <= byte_len(source)
    /\ buffer_ed = byte_len(SubSeq(source, 1, code))
    /\ is_char_boundary(source, buffer_st)
    /\ ReadsFirstChar => buffer_st < buffer_ed + len_utf8(CurChar)
    /\ ~(status = "panic" /\ error = "None")

\* C19 witness: a step is about to read the first character of a buffer that
\* already holds a two-byte character, so that byte offsets and character
\* counts differ
C19_Witness ==
    /\ ReadsFirstChar
    /\ buffer_st < buffer_ed
    /\ buffer_ed > code
    /\ buffer_st > 0

(***************************************************************************)
(* C20.  No source text is silently lost.                                  *)
(***************************************************************************)
\* the byte offsets of the characters of src
Offsets(src) == [k \in 1..Len(src) |-> byte_len(SubSeq(src, 1, k - 1))]

\* the character at byte offset off lies in one of the spans
Covered(off, spans) ==
    \E i \in 1..Len(spans) : spans[i].st <= off /\ off < spans[i].ed

\* C20: when run returns from a source in which every character that begins a
\* lexeme is classifiable, the lexemes of its tokens are non-empty and pairwise
\* disjoint, every character outside them is whitespace or part of a comment,
\* and a symbol, operator or quote that directly follows the lexeme of a
\* number, keyword, type name or identifier, and opens no comment, begins the
\* lexeme of the next token.
C20_NothingLost ==
    status = "returned" =>
        LET survey == SurveyOf(source)
            spans == survey.spans
            comment == survey.comment
            offset == Offsets(source)
        IN  survey.unclassifiable \/
            /\ Len(spans) = Len(tokens)
            /\ \A i \in 1..Len(spans) : spans[i].st < spans[i].ed
            /\ \A i, j \in 1..Len(spans) :
                  i # j => spans[i].ed <= spans[j].st \/ spans[j].ed <= spans[i].st
            /\ \A k \in 1..Len(source) :
                  \/ Covered(offset[k], spans)
                  \/ is_whitespace(source[k])
                  \/ k \in comment
            /\ \A i \in 1..Len(spans) : \A k \in 1..Len(source) :
                  ( /\ offset[k] = spans[i].ed
                    /\ IsWordToken(tokens[i]) \/ tokens[i].name = "Number"
                    /\ \/ symbol_to_token(source[k]) # Err
                       \/ operator_to_token(source[k]) # Err
                       \/ is_quote(source[k])
                    /\ k \notin comment )
                  => /\ i < Len(spans)
                     /\ spans[i + 1].st = spans[i].ed
                     /\ ~IsWordToken(tokens[i + 1])
                     /\ tokens[i + 1].name # "Number"

\* C20 witness: run has returned from a source with a comment, whitespace and
\* a symbol that directly follows a keyword, and every token has its lexeme
C20_Witness ==
    /\ status = "returned"
    /\ LET survey == SurveyOf(source)
       IN  /\ ~survey.unclassifiable
           /\ survey.comment # {}
           /\ \E k \in 1..Len(source) :
                 is_whitespace(source[k]) /\ k \notin survey.comment
           /\ \E i \in 1..(Len(tokens) - 1) :
                 /\ IsWordToken(tokens[i]) /\ tokens[i + 1].kind = "Symbol"
                 /\ survey.spans[i + 1].st = survey.spans[i].ed

====
